---- MODULE Spec2Model ----
(***************************************************************************)
(* Adaptive Radix Tree (src/src/art.c, src/src/art.h).                     *)
(*                                                                         *)
(* The heap is a function from node addresses (1, 2, ...) to node records. *)
(* C arrays keep their 0-based indices.  A key or a value is the sequence  *)
(* of the bytes of a C string without its terminator; KeyAt gives the      *)
(* terminator back.  Memory that malloc returns and the code never writes  *)
(* is not part of a record: every read of it takes its value from a        *)
(* "garbage" argument that the actions choose freely.                      *)
(***************************************************************************)
EXTENDS Integers, Sequences, FiniteSets, TLC

VARIABLES art, heap, freed, oob, op, log

vars == <<art, heap, freed, oob, op, log>>

----------------------------------------------------------------------------
(* Program constants (art.h) *)

MAX_PREFIX_LENGTH == 32
EMPTY_KEY == 255
INVALID == -1
NULL == 0

NODE4 == "NODE4"
NODE16 == "NODE16"
NODE48 == "NODE48"
NODE256 == "NODE256"
LEAF == "LEAF"

\* A pointer that designates no node of the tree (out-of-bounds or
\* uninitialised memory read as a pointer).
WILD == -1

----------------------------------------------------------------------------
(* Bounds of the model *)

MaxInserts == 2
MaxGarbageLen == 2
GrowKeyCount == 5
MaxGrowInserts == 5

\* 'a', 'b'
Alphabet == {97, 98}

\* "", "a", "b", "aa", "ab", "ba", "bb"
Keys == UNION {[1..n -> Alphabet] : n \in 0..2}

\* "1", "2"
Values == {<<49>>, <<50>>}

\* "key0", "key1", ... (test_growNode4ToNode16)
TestKey(i) == <<107, 101, 121, 48 + i>>

\* The test keys, which all start with 'k', and "a"
GrowKeys == {TestKey(i) : i \in 0..(GrowKeyCount - 1)} \cup {<<97>>}

GrowValues == {<<118>>}

\* What an uninitialised Node header (prefixLen, prefix) may hold.
GarbageHeaders(bytes) ==
    [prefixLen : -1..MaxGarbageLen, prefix : [1..MaxGarbageLen -> bytes]]

\* What findChildSSE may read past the end of a Node4: the int found where
\* a Node16 keeps count, and whether the byte searched equals the memory
\* that lies where a Node16 keeps keys[4..15].
GarbageLanes == [count : 0..5, match : BOOLEAN]

----------------------------------------------------------------------------
(* C strings *)

\* key[i]
KeyAt(key, i) ==
    IF i >= 0 /\ i < Len(key) THEN key[i + 1]
    ELSE IF i = Len(key) THEN 0
    ELSE WILD

\* strcmp(a, b): only its being zero or not is used.
strcmp(a, b) == IF a = b THEN 0 ELSE 1

MIN(a, b) == IF a < b THEN a ELSE b

\* a < b after the usual arithmetic conversion of both to size_t
\* (a negative int becomes a value above every non-negative one).
ULess(a, b) == IF (a < 0) = (b < 0) THEN a < b ELSE b < 0

----------------------------------------------------------------------------
(* Constructors *)

makeNode4 ==
    [type |-> NODE4, prefix |-> <<>>, prefixLen |-> 0,
     keys |-> [i \in 0..3 |-> 0], children |-> [i \in 0..3 |-> NULL],
     count |-> 0]

makeNode16 ==
    [type |-> NODE16, prefix |-> <<>>, prefixLen |-> 0,
     keys |-> [i \in 0..15 |-> 0], children |-> [i \in 0..15 |-> NULL],
     count |-> 0]

makeNode48 ==
    [type |-> NODE48, prefix |-> <<>>, prefixLen |-> 0,
     keys |-> [i \in 0..255 |-> EMPTY_KEY],
     children |-> [i \in 0..47 |-> NULL]]

makeNode256 ==
    [type |-> NODE256, prefix |-> <<>>, prefixLen |-> 0,
     children |-> [i \in 0..255 |-> NULL]]

makeLeafNodeBad(key, value) == [type |-> LEAF, key |-> key, value |-> key]

\* type, key and value are set; prefix and prefixLen stay uninitialised.
makeLeafNode(key, value) == [type |-> LEAF, key |-> key, value |-> value]

initializeAdaptiveRadixTreeBad == [root |-> NULL, size |-> 1]

initializeAdaptiveRadixTree == [root |-> NULL, size |-> 0]

\* The address malloc hands out next.
NewAddr(h) == Cardinality(DOMAIN h) + 1

Alloc(h, rec) == [a \in (DOMAIN h) \cup {NewAddr(h)} |->
                    IF a \in DOMAIN h THEN h[a] ELSE rec]

----------------------------------------------------------------------------
(* Child search *)

RECURSIVE BinarySearch(_, _, _, _)
\* The while loop of findChildBinary over keys[low..high].
BinarySearch(node, byte, low, high) ==
    IF low <= high
    THEN LET mid == low + (high - low) \div 2
             midByte == node.keys[mid]
         IN  IF midByte < byte THEN BinarySearch(node, byte, mid + 1, high)
             ELSE IF midByte > byte THEN BinarySearch(node, byte, low, mid - 1)
             ELSE node.children[mid]
    ELSE NULL

findChildBinary(node, byte) ==
    CASE node.type \in {NODE4, NODE16} ->
            BinarySearch(node, byte, 0, node.count - 1)
      [] node.type = NODE48 ->
            LET childIndex == node.keys[byte]
            IN  IF childIndex < 48 THEN node.children[childIndex] ELSE NULL
      [] node.type = NODE256 ->
            IF byte \in 0..255 THEN node.children[byte] ELSE WILD
      [] OTHER -> NULL

\* __builtin_ctz of the bitfield whose set bits are `bits`.
Ctz(bits) == CHOOSE i \in bits : \A j \in bits : i <= j

findChildSSE(node, byte, g) ==
    CASE node.type = NODE16 ->
            \* mask has the single bit count-1
            LET bit == node.count - 1
                bitfield == {i \in 0..15 : node.keys[i] = byte /\ i = bit}
            IN  IF bitfield # {} THEN node.children[Ctz(bitfield)] ELSE NULL
      [] node.type = NODE4 ->
            \* the Node4 is read through a Node16 pointer: keys[4..15] and
            \* count lie outside the Node4's fields, and children[i] of the
            \* Node16 view is children[i+1] of the Node4 for i < 3
            LET bit == g.count - 1
                lane(i) == IF i < 4 THEN node.keys[i] = byte ELSE g.match
                bitfield == {i \in 0..15 : lane(i) /\ i = bit}
            IN  IF bitfield # {}
                THEN LET index == Ctz(bitfield)
                     IN  IF index < 3 THEN node.children[index + 1] ELSE WILD
                ELSE NULL
      [] node.type = NODE48 ->
            LET childIndex == node.keys[byte]
            IN  IF childIndex # EMPTY_KEY
                THEN IF childIndex < 48 THEN node.children[childIndex] ELSE WILD
                ELSE NULL
      [] node.type = NODE256 ->
            IF byte \in 0..255 THEN node.children[byte] ELSE WILD
      [] OTHER -> NULL

\* build is TRUE for a build with __SSE2__ defined.
findChild(node, byte, build, g) ==
    IF build THEN findChildSSE(node, byte, g) ELSE findChildBinary(node, byte)

getPrefixLength(node) == node.prefixLen

\* node.prefix[i]; bytes the code never stored compare unequal to any key byte
PrefixAt(node, i) ==
    IF i >= 0 /\ i < Len(node.prefix) THEN node.prefix[i + 1] ELSE WILD - 1

RECURSIVE checkPrefixLoop(_, _, _, _, _)
checkPrefixLoop(node, key, depth, i, bound) ==
    IF i < bound /\ PrefixAt(node, i) = KeyAt(key, depth + i)
    THEN checkPrefixLoop(node, key, depth, i + 1, bound)
    ELSE i

checkPrefixBad(node, key, depth) ==
    LET rest == Len(key) - depth
        maxLength == IF ULess(node.prefixLen, rest) THEN node.prefixLen ELSE rest
    IN  checkPrefixLoop(node, key, 0, 0, MIN(node.prefixLen, maxLength))

checkPrefix(node, key, depth) ==
    LET rest == Len(key) - depth
        maxLength == IF ULess(node.prefixLen, rest) THEN node.prefixLen ELSE rest
    IN  checkPrefixLoop(node, key, depth, 0, MIN(node.prefixLen, maxLength))

\* The indexes depth + i of the key bytes that the loop of checkPrefix
\* compares: one for every byte counted and one for the byte it breaks on.
checkPrefixReads(node, key, depth) ==
    LET rest == Len(key) - depth
        maxLength == IF ULess(node.prefixLen, rest) THEN node.prefixLen ELSE rest
        bound == MIN(node.prefixLen, maxLength)
        count == checkPrefixLoop(node, key, depth, 0, bound)
    IN  {depth + i : i \in 0..(IF count < bound THEN count ELSE count - 1)}

RECURSIVE search(_, _, _, _, _, _)
search(h, node, key, depth, build, g) ==
    IF node = NULL THEN NULL
    ELSE IF node \notin DOMAIN h THEN WILD
    ELSE IF h[node].type = LEAF
    THEN IF strcmp(h[node].key, key) = 0 THEN node ELSE NULL
    ELSE LET nodePrefixLength == getPrefixLength(h[node])
         IN  IF checkPrefix(h[node], key, depth) # nodePrefixLength
             THEN NULL
             ELSE LET d == depth + nodePrefixLength
                      next == findChild(h[node], KeyAt(key, d), build, g)
                  IN  search(h, next, key, d + 1, build, g)

----------------------------------------------------------------------------
(* Growth.  A memory state is [heap, freed, oob]: the node records, the   *)
(* addresses passed to free, and the accesses made outside an array.      *)

Free(st, addr) == [st EXCEPT !.freed = @ \cup {addr}]

CopyPrefixBad(old) == [i \in 1..old.prefixLen |-> 0]

\* memcpy(newNode->node.prefix, oldNode->node.prefix, oldNode->node.prefixLen)
CopyPrefix(old) == [i \in 1..old.prefixLen |-> PrefixAt(old, i - 1)]

findEmptyIndexForChildren(node48) ==
    IF \E i \in 0..47 : node48.children[i] = NULL
    THEN CHOOSE i \in 0..47 : /\ node48.children[i] = NULL
                              /\ \A j \in 0..(i - 1) : node48.children[j] # NULL
    ELSE INVALID

\* Each result of a growth routine is [st, ret, nodePtr]: the memory, the
\* pointer returned and the value left in the caller's *nodePtr.
growFromNode4toNode16Bad(st, nodePtr) ==
    LET oldNode == st.heap[nodePtr]
        addr == NewAddr(st.heap)
        newNode == [makeNode16 EXCEPT
                      !.prefix = CopyPrefix(oldNode),
                      !.prefixLen = oldNode.prefixLen,
                      !.keys = [i \in 0..15 |->
                                  IF i < oldNode.count - 1 THEN oldNode.keys[i] ELSE @[i]],
                      !.children = [i \in 0..15 |->
                                  IF i < oldNode.count - 1 THEN oldNode.children[i] ELSE @[i]],
                      !.count = oldNode.count - 1]
    IN  [st |-> Free([st EXCEPT !.heap = Alloc(st.heap, newNode)], nodePtr),
         ret |-> addr, nodePtr |-> addr]

growFromNode4toNode16(st, nodePtr) ==
    LET oldNode == st.heap[nodePtr]
        addr == NewAddr(st.heap)
        newNode == [makeNode16 EXCEPT
                      !.prefix = CopyPrefix(oldNode),
                      !.prefixLen = oldNode.prefixLen,
                      !.keys = [i \in 0..15 |->
                                  IF i < oldNode.count THEN oldNode.keys[i] ELSE @[i]],
                      !.children = [i \in 0..15 |->
                                  IF i < oldNode.count THEN oldNode.children[i] ELSE @[i]],
                      !.count = oldNode.count]
    IN  [st |-> Free([st EXCEPT !.heap = Alloc(st.heap, newNode)], nodePtr),
         ret |-> addr, nodePtr |-> addr]

RECURSIVE grow16to48Loop(_, _, _)
\* The copy loop of growFromNode16toNode48 from index i on.
grow16to48Loop(oldNode, newNode, i) ==
    IF i < oldNode.count
    THEN LET index == oldNode.keys[i]
             childIndex == findEmptyIndexForChildren(newNode)
         IN  IF childIndex = -1
             THEN [ok |-> FALSE, node |-> newNode]
             ELSE grow16to48Loop(oldNode,
                    [newNode EXCEPT !.keys[index] = childIndex + 1,
                                    !.children[childIndex] = oldNode.children[i]],
                    i + 1)
    ELSE [ok |-> TRUE, node |-> newNode]

growFromNode16toNode48(st, nodePtr) ==
    LET oldNode == st.heap[nodePtr]
        addr == NewAddr(st.heap)
        Done(r, st1) ==
            IF r.ok
            THEN [st |-> Free(st1, nodePtr), ret |-> addr, nodePtr |-> addr]
            ELSE [st |-> Free(st1, addr), ret |-> NULL, nodePtr |-> nodePtr]
        Copied(r) == Done(r, [st EXCEPT !.heap = Alloc(st.heap, r.node)])
    IN  Copied(grow16to48Loop(oldNode,
                [makeNode48 EXCEPT !.prefix = CopyPrefix(oldNode),
                                   !.prefixLen = oldNode.prefixLen], 0))

growFromNode48toNode256(st, node) ==
    LET node48 == st.heap[node]
        addr == NewAddr(st.heap)
        used == {i \in 0..255 : node48.keys[i] # EMPTY_KEY}
        newNode == [makeNode256 EXCEPT
                      !.prefix = CopyPrefix(node48),
                      !.prefixLen = node48.prefixLen,
                      !.children = [i \in 0..255 |->
                          IF i \in used
                          THEN IF node48.keys[i] < 48
                               THEN node48.children[node48.keys[i]] ELSE WILD
                          ELSE NULL]]
        outside == {[fn |-> "growFromNode48toNode256", slot |-> node48.keys[i]] :
                       i \in {j \in used : node48.keys[j] >= 48}}
        st1 == [st EXCEPT !.heap = Alloc(st.heap, newNode),
                          !.oob = @ \cup outside]
    IN  \* *node is passed by value: the caller's pointer is not updated
        [st |-> Free(st1, node), ret |-> addr, nodePtr |-> node]

growBad(st, node) == [st |-> st, ret |-> node, nodePtr |-> node]

grow(st, node) ==
    CASE st.heap[node].type = NODE4 -> growFromNode4toNode16(st, node)
      [] st.heap[node].type = NODE16 -> growFromNode16toNode48(st, node)
      [] st.heap[node].type = NODE48 -> growFromNode48toNode256(st, node)
      [] OTHER -> [st |-> st, ret |-> NULL, nodePtr |-> node]

----------------------------------------------------------------------------
(* Adding a child.  Each result is [st, ret]: the memory and the pointer  *)
(* returned.                                                               *)

RECURSIVE FindPosition(_, _, _)
\* while (position < node->count && node->keys[position] < keyChar) position++
FindPosition(node, keyChar, position) ==
    IF position < node.count /\ node.keys[position] < keyChar
    THEN FindPosition(node, keyChar, position + 1)
    ELSE position

\* The count < capacity branch of addChildToNode4 and addChildToNode16.
InsertSorted(node, keyChar, childNode) ==
    LET position == FindPosition(node, keyChar, 0)
        Shift(arr, new) ==
            [i \in DOMAIN arr |->
                IF i = position THEN new
                ELSE IF i > position /\ i <= node.count THEN arr[i - 1]
                ELSE arr[i]]
    IN  [node EXCEPT !.keys = Shift(node.keys, keyChar),
                     !.children = Shift(node.children, childNode),
                     !.count = node.count + 1]

RECURSIVE addChild(_, _, _, _)

addChildToNode4(st, parentNode, keyChar, childNode) ==
    LET node == st.heap[parentNode]
    IN  IF node.count < 4
        THEN [st |-> [st EXCEPT !.heap[parentNode] =
                                    InsertSorted(node, keyChar, childNode)],
              ret |-> parentNode]
        ELSE \* grow(&parentNode); addChild(parentNode, ...)
             LET Grown(g) ==
                     [st |-> addChild(g.st, g.nodePtr, keyChar, childNode).st,
                      ret |-> g.nodePtr]
             IN  Grown(grow(st, parentNode))

addChildToNode16(st, parentNode, keyChar, childNode) ==
    LET node == st.heap[parentNode]
    IN  IF node.count < 16
        THEN [st |-> [st EXCEPT !.heap[parentNode] =
                                    InsertSorted(node, keyChar, childNode)],
              ret |-> parentNode]
        ELSE \* parentNode = grow(&parentNode); addChild(parentNode, ...)
             LET Grown(g) ==
                     [st |-> addChild(g.st, g.ret, keyChar, childNode).st,
                      ret |-> g.ret]
             IN  Grown(grow(st, parentNode))

addChildToNode48(st, parentNode, keyChar, childNode) ==
    LET node == st.heap[parentNode]
        index == keyChar
    IN  IF node.keys[index] # EMPTY_KEY
        THEN LET childIndex == findEmptyIndexForChildren(node)
             IN  IF childIndex # INVALID
                 THEN [st |-> [st EXCEPT
                                 !.heap[parentNode].keys[index] = childIndex,
                                 !.heap[parentNode].children[childIndex] = childNode],
                       ret |-> parentNode]
                 ELSE \* grow(&parentNode) leaves parentNode on the released
                      \* Node48; the addChild that follows works on released
                      \* memory
                      LET Grown(g) ==
                              [st |-> [g.st EXCEPT !.oob = @ \cup
                                        {[fn |-> "addChild", slot |-> g.nodePtr]}],
                               ret |-> g.nodePtr]
                      IN  Grown(grow(st, parentNode))
        ELSE \* childIndex = node->keys[index] is EMPTY_KEY here
             LET childIndex == node.keys[index]
             IN  [st |-> [st EXCEPT !.oob = @ \cup
                             {[fn |-> "addChildToNode48", slot |-> childIndex]}],
                  ret |-> parentNode]

addChildToNode256(st, parentNode, keyChar, childNode) ==
    LET node == st.heap[parentNode]
        index == keyChar
    IN  IF node.children[index] = NULL
        THEN [st |-> [st EXCEPT !.heap[parentNode].children[index] = childNode],
              ret |-> parentNode]
        ELSE [st |-> st, ret |-> parentNode]

addChild(st, parentNode, keyChar, childNode) ==
    CASE st.heap[parentNode].type = NODE4 ->
            addChildToNode4(st, parentNode, keyChar, childNode)
      [] st.heap[parentNode].type = NODE16 ->
            addChildToNode16(st, parentNode, keyChar, childNode)
      [] st.heap[parentNode].type = NODE48 ->
            addChildToNode48(st, parentNode, keyChar, childNode)
      [] st.heap[parentNode].type = NODE256 ->
            addChildToNode256(st, parentNode, keyChar, childNode)
      [] OTHER -> [st |-> st, ret |-> NULL]

isNodeFullBad(node) ==
    CASE node.type = NODE4 -> node.count = 4
      [] node.type = NODE16 -> node.count = 15
      [] node.type = NODE48 -> \A i \in 0..255 : node.keys[i] # EMPTY_KEY
      [] node.type = NODE256 -> \A i \in 0..255 : node.children[i] # NULL
      [] OTHER -> FALSE

isNodeFull(node) ==
    CASE node.type = NODE4 -> node.count = 4
      [] node.type = NODE16 -> node.count = 16
      [] node.type = NODE48 -> \A i \in 0..255 : node.keys[i] # EMPTY_KEY
      [] node.type = NODE256 -> \A i \in 0..255 : node.children[i] # NULL
      [] OTHER -> FALSE

setPrefix(node, prefix, prefixLen) ==
    LET len == IF prefixLen > MAX_PREFIX_LENGTH THEN MAX_PREFIX_LENGTH
               ELSE prefixLen
        bytes == [i \in 1..len |-> KeyAt(prefix, i - 1)]
    IN  \* the stored bytes, followed by the '\0' written when there is room
        [node EXCEPT !.prefix = IF len < MAX_PREFIX_LENGTH
                                THEN Append(bytes, 0) ELSE bytes,
                     !.prefixLen = len]

----------------------------------------------------------------------------
(* insert.  The result is [st, root, ret]: the memory, the value left in  *)
(* *root and the pointer returned.  g is what the uninitialised header of *)
(* a leaf holds when checkPrefix reads it; when g has a field fail, the   *)
(* malloc call of that ordinal among those that insert, makeNode4,        *)
(* makeLeafNode and the grow of a full node make returns NULL.            *)

\* The n-th malloc of the call returns NULL.
MallocFails(g, n) == "fail" \in DOMAIN g /\ g.fail = n

\* makeLeafNode returns NULL when one of its three mallocs fails, the first
\* of them being the n-th malloc of the call; what it had allocated before
\* is released again.
LeafFails(g, n) == \E i \in n..(n + 2) : MallocFails(g, i)

\* g once the first malloc of the call has succeeded.
AfterMalloc(g) ==
    IF "fail" \in DOMAIN g
    THEN [prefixLen |-> g.prefixLen, prefix |-> g.prefix, fail |-> g.fail - 1]
    ELSE g

\* The two addChildToNode4 calls of the leaf split and the store through
\* parentPointer.  st holds the new Node4 at newNode4.
SplitLeaf(st, newNode4, oldKey, node, key, value, depth, g) ==
    LET AddNew(m) ==
            IF LeafFails(g, 2)
            THEN addChildToNode4(m, newNode4, KeyAt(key, depth), NULL).st
            ELSE addChildToNode4(
                   [m EXCEPT !.heap = Alloc(m.heap, makeLeafNode(key, value))],
                   newNode4, KeyAt(key, depth), NewAddr(m.heap)).st
    IN  [st |-> AddNew(addChildToNode4(st, newNode4,
                                       KeyAt(oldKey, depth), node).st),
         root |-> newNode4, ret |-> newNode4]

RECURSIVE insertLoop(_, _, _, _, _, _, _)
\* while (node != NULL) { ... }, parentPointer being root throughout
insertLoop(st, root, node, key, value, depth, g) ==
    IF node = NULL THEN [st |-> st, root |-> root, ret |-> root]
    ELSE IF st.heap[node].type = LEAF
    THEN LET leafNode == st.heap[root]
         IN  IF strcmp(leafNode.key, key) = 0
             THEN [st |-> st, root |-> root, ret |-> root]
             ELSE IF MallocFails(g, 1)
             THEN \* makeNode4 returned NULL and setPrefix writes through it
                  [st |-> [st EXCEPT !.oob = @ \cup
                             {[fn |-> "setPrefix", slot |-> NULL]}],
                   root |-> root, ret |-> WILD]
             ELSE LET commonPrefixLength == checkPrefix(g, key, depth)
                  IN  SplitLeaf(
                        [st EXCEPT !.heap = Alloc(st.heap,
                            setPrefix(makeNode4, key, commonPrefixLength))],
                        NewAddr(st.heap), leafNode.key, node, key, value,
                        depth, g)
    ELSE IF isNodeFull(st.heap[node])
    THEN LET Grown(gr) ==
                 IF gr.ret = NULL
                 THEN [st |-> gr.st, root |-> root, ret |-> NULL]
                 ELSE insertLoop(gr.st, gr.ret, gr.ret, key, value, depth,
                                 AfterMalloc(g))
         IN  IF MallocFails(g, 1)
             THEN \* the makeNode call of the growth returned NULL
                  [st |-> st, root |-> root, ret |-> NULL]
             ELSE Grown(grow(st, node))
    ELSE IF LeafFails(g, 1)
    THEN [st |-> addChild(st, node, KeyAt(key, depth), NULL).st,
          root |-> root, ret |-> root]
    ELSE [st |-> addChild(
                    [st EXCEPT !.heap = Alloc(st.heap, makeLeafNode(key, value))],
                    node, KeyAt(key, depth), NewAddr(st.heap)).st,
          root |-> root, ret |-> root]

insert(st, root, key, value, depth, g) ==
    IF root = NULL
    THEN IF LeafFails(g, 1)
         THEN [st |-> st, root |-> NULL, ret |-> NULL]
         ELSE LET newLeaf == NewAddr(st.heap)
              IN  [st |-> [st EXCEPT !.heap =
                                Alloc(st.heap, makeLeafNode(key, value))],
                   root |-> newLeaf, ret |-> newLeaf]
    ELSE insertLoop(st, root, root, key, value, depth, g)

----------------------------------------------------------------------------
(* The program: a tree handle, then insert and search calls on its root.  *)

NoOp == [name |-> "init", key |-> <<>>, value |-> <<>>, ret |-> NULL,
         pre |-> NULL, build |-> FALSE]

Init ==
    /\ art = initializeAdaptiveRadixTree
    /\ heap = <<>>
    /\ freed = {}
    /\ oob = {}
    /\ op = NoOp
    /\ log = <<>>

\* insert reads the uninitialised header of a leaf only when it splits it.
ReadsLeafHeader(k) ==
    /\ art.root # NULL
    /\ heap[art.root].type = LEAF
    /\ strcmp(heap[art.root].key, k) # 0

\* search reads past the end of a Node4 only in the __SSE2__ build.
ReadsPastNode4(build) ==
    /\ build
    /\ art.root # NULL
    /\ heap[art.root].type = NODE4

ZeroHeader == [prefixLen |-> 0, prefix |-> <<>>]

ZeroLanes == [count |-> 0, match |-> FALSE]

\* insert(&(art->root), k, v, 0)
Insert(k, v, garbage, limit) ==
    /\ Len(log) < limit
    /\ \E g \in IF ReadsLeafHeader(k) THEN garbage ELSE {ZeroHeader} :
         \E r \in {insert([heap |-> heap, freed |-> freed, oob |-> oob],
                          art.root, k, v, 0, g)} :
             /\ art' = [art EXCEPT !.root = r.root]
             /\ heap' = r.st.heap
             /\ freed' = r.st.freed
             /\ oob' = r.st.oob
             /\ op' = [name |-> "insert", key |-> k, value |-> v,
                       ret |-> r.ret, pre |-> art.root, build |-> FALSE]
    /\ log' = Append(log, [key |-> k, value |-> v])

\* search(art->root, k, 0) in the build without (build = FALSE) or with
\* (build = TRUE) __SSE2__
Search(k, build) ==
    /\ \E g \in IF ReadsPastNode4(build) THEN GarbageLanes ELSE {ZeroLanes} :
         op' = [name |-> "search", key |-> k, value |-> <<>>,
                ret |-> search(heap, art.root, k, 0, build, g),
                pre |-> art.root, build |-> build]
    /\ UNCHANGED <<art, heap, freed, oob, log>>

Next ==
    \/ \E k \in Keys, v \in Values :
          Insert(k, v, GarbageHeaders(Alphabet), MaxInserts)
    \/ \E k \in Keys, build \in BOOLEAN : Search(k, build)

Spec == Init /\ [][Next]_vars

GrowBytes == UNION {{k[i] : i \in 1..Len(k)} : k \in GrowKeys}

\* Inserts of "key0", "key1", ... only: the tree grows under one node.
NextGrow ==
    \E k \in GrowKeys, v \in GrowValues :
        Insert(k, v, GarbageHeaders(GrowBytes), MaxGrowInserts)

SpecGrow == Init /\ [][NextGrow]_vars

----------------------------------------------------------------------------
(* Promotion runs: the key sequences of test_growNode16ToNode48 and of     *)
(* test_growNode48ToNode256, and keys of one byte each that all differ,    *)
(* inserted in order and followed by freeART.                              *)

MaxPromoteInserts == 49
MaxByteKeys == 18

\* What printf writes for %d, for 0 <= i < 100
Digits(i) ==
    IF i < 10 THEN <<48 + i>> ELSE <<48 + (i \div 10), 48 + (i % 10)>>

\* snprintf(buffer, size, ...) stores at most size - 1 bytes of the text
Snprintf(size, text) == SubSeq(text, 1, MIN(Len(text), size - 1))

\* "key16%d" in char key[10]
Key16(i) == Snprintf(10, <<107, 101, 121, 49, 54>> \o Digits(i))

\* "key48%d" in char key[7]
Key48(i) == Snprintf(7, <<107, 101, 121, 52, 56>> \o Digits(i))

\* "key256%d" in char newKey[8]
Key256(i) == Snprintf(8, <<107, 101, 121, 50, 53, 54>> \o Digits(i))

TestGrow16 == [j \in 1..20 |-> IF j <= 16 THEN Key16(j - 1) ELSE Key48(j - 17)]

TestGrow48 == [j \in 1..53 |-> IF j <= 48 THEN Key48(j - 1) ELSE Key256(j - 49)]

ByteKeys == [j \in 1..MaxByteKeys |-> <<j>>]

PromoteRuns == {TestGrow16, TestGrow48, ByteKeys}

\* 'k', 'e' and the byte of the second of ByteKeys
PromoteBytes == {107, 101, 2}

LogKeys == [i \in 1..Len(log) |-> log[i].key]

\* The handle has not been passed to freeART.
Alive == op.name # "freeART"

\* The next insert of a run whose earlier keys have all been inserted.
InsertNextOf(run, garbage, limit) ==
    /\ Alive
    /\ Len(log) < Len(run)
    /\ \A i \in 1..Len(log) : log[i].key = run[i]
    /\ \E v \in GrowValues : Insert(run[Len(log) + 1], v, garbage, limit)

\* The children that the loop of freeNode passes to the recursive call, in
\* the order of the loop.
FreedChildren(node) ==
    CASE node.type \in {NODE4, NODE16} ->
            [i \in 1..node.count |-> node.children[i - 1]]
      [] node.type = NODE48 ->
            LET visited == SelectSeq([i \in 1..48 |-> i - 1],
                                     LAMBDA i : node.keys[i] # EMPTY_KEY)
            IN  [j \in 1..Len(visited) |-> node.children[visited[j]]]
      [] node.type = NODE256 ->
            LET visited == SelectSeq([i \in 1..256 |-> i - 1],
                                     LAMBDA i : node.children[i] # NULL)
            IN  [j \in 1..Len(visited) |-> node.children[visited[j]]]
      [] OTHER -> <<>>

RECURSIVE freeNode(_, _)
RECURSIVE freeNodes(_, _, _)

\* freeNode on nodes[i], nodes[i + 1], ...
freeNodes(h, nodes, i) ==
    IF i > Len(nodes) THEN <<>>
    ELSE freeNode(h, nodes[i]) \o freeNodes(h, nodes, i + 1)

\* The calls of free that freeNode(node) makes, in order: each is the block
\* released, a node or the key or value buffer of a leaf.
freeNode(h, node) ==
    IF node = NULL THEN <<>>
    ELSE IF node \notin DOMAIN h THEN <<[addr |-> node, part |-> "wild"]>>
    ELSE IF h[node].type = LEAF
    THEN << [addr |-> node, part |-> "key"],
            [addr |-> node, part |-> "value"],
            [addr |-> node, part |-> "node"] >>
    ELSE freeNodes(h, FreedChildren(h[node]), 1)
            \o <<[addr |-> node, part |-> "node"]>>

\* freeART(art)
FreeART ==
    /\ Alive
    /\ \E released \in {freeNode(heap, art.root)} :
         /\ op' = [name |-> "freeART", key |-> <<>>, value |-> <<>>,
                   ret |-> NULL, pre |-> art.root, build |-> FALSE,
                   released |-> released]
         /\ freed' = freed \cup {released[i].addr : i \in 1..Len(released)}
    /\ UNCHANGED <<art, heap, oob, log>>

NextPromote ==
    \/ \E run \in PromoteRuns :
          InsertNextOf(run, GarbageHeaders(PromoteBytes), MaxPromoteInserts)
    \/ FreeART

SpecPromote == Init /\ [][NextPromote]_vars

----------------------------------------------------------------------------
(* Inserts during which a malloc returns NULL, over the keys of            *)
(* test_growNode4ToNode16 inserted in order.                               *)

FailRun == [j \in 1..GrowKeyCount |-> TestKey(j - 1)]

\* The number of the malloc calls that insert(&root, key, ...) reaches when
\* none of them fails: three for a leaf, one for the Node4 of a split, one
\* for the node that replaces a full one.
MallocCount(h, root, key) ==
    IF root = NULL THEN 3
    ELSE IF h[root].type = LEAF
    THEN IF strcmp(h[root].key, key) = 0 THEN 0 ELSE 4
    ELSE IF isNodeFull(h[root]) THEN 4
    ELSE 3

\* A write through the NULL that makeNode4 returned has happened.
NullWritten == [fn |-> "setPrefix", slot |-> NULL] \in oob

\* insert(&(art->root), k, v, 0) during which the malloc call number fail
\* returns NULL
InsertNoMem(k, v, garbage, limit) ==
    /\ Len(log) < limit
    /\ \E h \in IF ReadsLeafHeader(k) THEN garbage ELSE {ZeroHeader} :
         \E fail \in 1..MallocCount(heap, art.root, k) :
           \E r \in {insert([heap |-> heap, freed |-> freed, oob |-> oob],
                            art.root, k, v, 0,
                            [prefixLen |-> h.prefixLen, prefix |-> h.prefix,
                             fail |-> fail])} :
               /\ art' = [art EXCEPT !.root = r.root]
               /\ heap' = r.st.heap
               /\ freed' = r.st.freed
               /\ oob' = r.st.oob
               /\ op' = [name |-> "insert", key |-> k, value |-> v,
                         ret |-> r.ret, pre |-> art.root, build |-> FALSE,
                         fail |-> fail]
    /\ log' = Append(log, [key |-> k, value |-> v])

NextFail ==
    \/ /\ ~NullWritten
       /\ InsertNextOf(FailRun, GarbageHeaders(GrowBytes), MaxGrowInserts)
    \/ /\ ~NullWritten
       /\ Len(log) < Len(FailRun)
       /\ \A i \in 1..Len(log) : log[i].key = FailRun[i]
       /\ \E v \in GrowValues :
             InsertNoMem(FailRun[Len(log) + 1], v, GarbageHeaders(GrowBytes),
                         MaxGrowInserts)

SpecFail == Init /\ [][NextFail]_vars

----------------------------------------------------------------------------
(* One internal node in a slot, as the unit tests build it: made by one of *)
(* the makeNode functions, given children by addChild and grown by grow,   *)
(* the slot taking the pointer returned.  The slot is art.root.            *)

MaxNodeAdds == 17

\* The edge bytes of the children added, in the order of adding: ascending,
\* descending, or one byte again and again.
NodeRuns ==
    { [j \in 1..MaxNodeAdds |-> j],
      [j \in 1..MaxNodeAdds |-> 100 - j],
      [j \in 1..MaxNodeAdds |-> 107] }

makeNode(type) ==
    CASE type = NODE4 -> makeNode4
      [] type = NODE16 -> makeNode16
      [] type = NODE48 -> makeNode48
      [] type = NODE256 -> makeNode256

\* slot = makeNode4(), makeNode16(), makeNode48() or makeNode256()
MakeNode(type) ==
    /\ art.root = NULL
    /\ heap = <<>>
    /\ heap' = Alloc(heap, makeNode(type))
    /\ art' = [art EXCEPT !.root = NewAddr(heap)]
    /\ op' = [name |-> "makeNode", key |-> <<>>, value |-> <<>>,
              ret |-> NewAddr(heap), pre |-> NULL, build |-> FALSE]
    /\ UNCHANGED <<freed, oob, log>>

\* slot = addChild(slot, b, makeLeafNode(b, "v"))
AddChild(b) ==
    /\ art.root # NULL
    /\ Len(log) < MaxNodeAdds
    /\ \E r \in {addChild([heap |-> Alloc(heap, makeLeafNode(<<b>>, <<118>>)),
                           freed |-> freed, oob |-> oob],
                          art.root, b, NewAddr(heap))} :
         /\ art' = [art EXCEPT !.root = r.ret]
         /\ heap' = r.st.heap
         /\ freed' = r.st.freed
         /\ oob' = r.st.oob
         /\ op' = [name |-> "addChild", key |-> <<b>>, value |-> <<118>>,
                   ret |-> r.ret, pre |-> art.root, build |-> FALSE,
                   child |-> NewAddr(heap)]
    /\ log' = Append(log, [key |-> <<b>>, value |-> <<118>>])

\* slot = grow(&slot) on a node that can grow
GrowNode ==
    /\ art.root # NULL
    /\ heap[art.root].type \in {NODE4, NODE16, NODE48}
    /\ \E r \in {grow([heap |-> heap, freed |-> freed, oob |-> oob], art.root)} :
         /\ art' = [art EXCEPT !.root = r.ret]
         /\ heap' = r.st.heap
         /\ freed' = r.st.freed
         /\ oob' = r.st.oob
         /\ op' = [name |-> "grow", key |-> <<>>, value |-> <<>>,
                   ret |-> r.ret, pre |-> art.root, build |-> FALSE]
    /\ UNCHANGED log

NextNode ==
    \/ \E type \in {NODE4, NODE16, NODE48, NODE256} : MakeNode(type)
    \/ \E run \in NodeRuns :
          /\ \A i \in 1..Len(log) : log[i].key = <<run[i]>>
          /\ Len(log) < Len(run)
          /\ AddChild(run[Len(log) + 1])
    \/ GrowNode

SpecNode == Init /\ [][NextNode]_vars

----------------------------------------------------------------------------
(* The prefix of one internal node, as the unit tests of checkPrefix use   *)
(* it: a node made by one of the makeNode functions is given a prefix by   *)
(* setPrefix and checkPrefix is called on it with a key and a depth in the *)
(* key.                                                                    *)

MaxPrefixKeyLen == 3

\* n times 'a'
LongKey(n) == [i \in 1..n |-> 97]

\* The strings over 'a', 'b' of up to MaxPrefixKeyLen bytes, and strings
\* that are longer than the prefix array.
PrefixStrings ==
    UNION {[1..n -> Alphabet] : n \in 0..MaxPrefixKeyLen}
        \cup {LongKey(MAX_PREFIX_LENGTH + 1), LongKey(MAX_PREFIX_LENGTH + 2)}

\* setPrefix(slot, p, n), right after the node is made
SetPrefix(p, n) ==
    /\ art.root # NULL
    /\ op.name = "makeNode"
    /\ heap' = [heap EXCEPT ![art.root] = setPrefix(heap[art.root], p, n)]
    /\ op' = [name |-> "setPrefix", key |-> p, value |-> <<>>,
              ret |-> NULL, pre |-> art.root, build |-> FALSE]
    /\ UNCHANGED <<art, freed, oob, log>>

\* checkPrefix(slot, k, d), the last call made on the node
CheckPrefix(k, d) ==
    /\ art.root # NULL
    /\ op.name \in {"makeNode", "setPrefix"}
    /\ op' = [name |-> "checkPrefix", key |-> k, value |-> <<>>,
              ret |-> checkPrefix(heap[art.root], k, d),
              pre |-> art.root, build |-> FALSE, depth |-> d,
              compared |-> checkPrefixReads(heap[art.root], k, d)]
    /\ UNCHANGED <<art, heap, freed, oob, log>>

NextPrefix ==
    \/ \E type \in {NODE4, NODE16, NODE48, NODE256} : MakeNode(type)
    \/ \E p \in PrefixStrings, n \in 0..(MAX_PREFIX_LENGTH + 2) :
          n <= Len(p) /\ SetPrefix(p, n)
    \/ \E k \in PrefixStrings, d \in 0..(MAX_PREFIX_LENGTH + 2) :
          d <= Len(k) /\ CheckPrefix(k, d)

SpecPrefix == Init /\ [][NextPrefix]_vars

----------------------------------------------------------------------------
(* Keys whose common prefix is longer than the prefix array.               *)

MaxLongInserts == 3
LongPrefixLen == 40

\* "aaa...ax", "aaa...ay" with LongPrefixLen times 'a', the LongPrefixLen
\* times 'a' alone, and "b"
LongKeys ==
    { Append(LongKey(LongPrefixLen), 120), Append(LongKey(LongPrefixLen), 121),
      LongKey(LongPrefixLen), <<98>> }

\* The header of a leaf in memory that malloc hands out again after every
\* byte of it was set to 'a': prefixLen is 0x61616161, and the four bytes
\* of prefixLen follow the 32 bytes of prefix.
StaleHeader ==
    [prefixLen |-> 1633771873, prefix |-> LongKey(MAX_PREFIX_LENGTH + 4)]

NextLong ==
    \E k \in LongKeys, v \in GrowValues :
        Insert(k, v, {ZeroHeader, StaleHeader}, MaxLongInserts)

SpecLong == Init /\ [][NextLong]_vars

----------------------------------------------------------------------------
(* insert and search one step at a time: a call of insert advances by one  *)
(* iteration of its while loop and a call of search by one activation of   *)
(* the recursive function.  While a call runs, op is its frame: the node   *)
(* it stands on, the depth, and what it has counted and read so far.       *)

MaxStepInserts == 49
MaxLoopIterations == 3

\* "", "a", "b", "ab", "ba": the fifth insert finds a full Node4
ShortRun == << <<>>, <<97>>, <<98>>, <<97, 98>>, <<98, 97>> >>

StepRuns == {ShortRun, TestGrow48}

\* The keys searched: keys of the runs and keys that are in none.
StepKeys == {<<>>, <<97>>, <<97, 98>>, <<98, 98>>, Key48(0), Key48(47)}

Running == op.name \in {"insertCall", "searchCall"}

RECURSIVE FirstDifference(_, _, _)
\* The index of the byte on which strcmp(a, b) stops: the first byte that
\* differs, or the terminator of both.
FirstDifference(a, b, i) ==
    IF KeyAt(a, i) = KeyAt(b, i) /\ KeyAt(a, i) # 0
    THEN FirstDifference(a, b, i + 1)
    ELSE i

\* One activation of search(node, key, depth): whether it returns without
\* a recursive call, what it returns then, the arguments of the recursive
\* call otherwise, and the indexes of the key bytes it reads.
searchLevel(h, node, key, depth, build, g) ==
    IF node = NULL
    THEN [done |-> TRUE, ret |-> NULL, node |-> NULL, depth |-> depth,
          reads |-> {}]
    ELSE IF node \notin DOMAIN h
    THEN [done |-> TRUE, ret |-> WILD, node |-> node, depth |-> depth,
          reads |-> {}]
    ELSE IF h[node].type = LEAF
    THEN [done |-> TRUE,
          ret |-> IF strcmp(h[node].key, key) = 0 THEN node ELSE NULL,
          node |-> node, depth |-> depth,
          reads |-> 0..FirstDifference(h[node].key, key, 0)]
    ELSE LET nodePrefixLength == getPrefixLength(h[node])
             d == depth + nodePrefixLength
         IN  IF checkPrefix(h[node], key, depth) # nodePrefixLength
             THEN [done |-> TRUE, ret |-> NULL, node |-> node,
                   depth |-> depth,
                   reads |-> checkPrefixReads(h[node], key, depth)]
             ELSE [done |-> FALSE, ret |-> NULL,
                   node |-> findChild(h[node], KeyAt(key, d), build, g),
                   depth |-> d + 1,
                   reads |-> checkPrefixReads(h[node], key, depth) \cup {d}]

\* search(art->root, k, 0) is called.
CallSearch(k, build) ==
    /\ ~Running
    /\ Alive
    /\ \E g \in IF ReadsPastNode4(build) THEN GarbageLanes ELSE {ZeroLanes} :
         op' = [name |-> "searchCall", key |-> k, value |-> <<>>,
                ret |-> NULL, pre |-> art.root, build |-> build,
                node |-> art.root, depth |-> 0, levels |-> 0, reads |-> {},
                lanes |-> g]
    /\ UNCHANGED <<art, heap, freed, oob, log>>

\* The activation of search that the call stands in returns, or calls
\* search on the child.
StepSearch ==
    /\ op.name = "searchCall"
    /\ \E r \in {searchLevel(heap, op.node, op.key, op.depth, op.build,
                             op.lanes)} :
         op' = IF r.done
               THEN [name |-> "search", key |-> op.key, value |-> <<>>,
                     ret |-> r.ret, pre |-> op.pre, build |-> op.build,
                     levels |-> op.levels, reads |-> op.reads \cup r.reads]
               ELSE [op EXCEPT !.node = r.node, !.depth = r.depth,
                               !.levels = @ + 1,
                               !.reads = @ \cup r.reads]
    /\ UNCHANGED <<art, heap, freed, oob, log>>

\* insert(&(art->root), k, v, 0) is called with the next key of a run.
CallInsert(run) ==
    /\ ~Running
    /\ Alive
    /\ Len(log) < MaxStepInserts
    /\ Len(log) < Len(run)
    /\ \A i \in 1..Len(log) : log[i].key = run[i]
    /\ \E k \in {run[Len(log) + 1]}, v \in GrowValues :
         \E g \in IF ReadsLeafHeader(k) THEN GarbageHeaders(Alphabet)
                  ELSE {ZeroHeader} :
            op' = [name |-> "insertCall", key |-> k, value |-> v,
                   ret |-> NULL, pre |-> art.root, build |-> FALSE,
                   node |-> art.root, iterations |-> 0, header |-> g]
    /\ UNCHANGED <<art, heap, freed, oob, log>>

\* What one pass through the body of insert does: the return on an empty
\* root, and then per iteration of the while loop either the growth of a
\* full node, after which the loop goes on with the grown node, or a
\* return.
insertIteration(st, root, node, key, value, depth, g) ==
    IF root # NULL /\ st.heap[node].type # LEAF /\ isNodeFull(st.heap[node])
    THEN LET Grown(gr) ==
                 IF gr.ret = NULL
                 THEN [done |-> TRUE, st |-> gr.st, root |-> root,
                       ret |-> NULL, node |-> gr.nodePtr]
                 ELSE [done |-> FALSE, st |-> gr.st, root |-> gr.ret,
                       ret |-> NULL, node |-> gr.ret]
         IN  Grown(grow(st, node))
    ELSE LET Returned(r) ==
                 [done |-> TRUE, st |-> r.st, root |-> r.root,
                  ret |-> r.ret, node |-> node]
         IN  Returned(IF root = NULL
                      THEN insert(st, root, key, value, depth, g)
                      ELSE insertLoop(st, root, node, key, value, depth, g))

\* The call of insert makes its next pass.
StepInsert ==
    /\ op.name = "insertCall"
    /\ op.iterations < MaxLoopIterations
    /\ \E r \in {insertIteration([heap |-> heap, freed |-> freed, oob |-> oob],
                                 art.root, op.node, op.key, op.value, 0,
                                 op.header)} :
         /\ art' = [art EXCEPT !.root = r.root]
         /\ heap' = r.st.heap
         /\ freed' = r.st.freed
         /\ oob' = r.st.oob
         /\ op' = IF r.done
                  THEN [name |-> "insert", key |-> op.key, value |-> op.value,
                        ret |-> r.ret, pre |-> op.pre, build |-> FALSE,
                        iterations |-> op.iterations + 1]
                  ELSE [op EXCEPT !.node = r.node, !.iterations = @ + 1]
         /\ log' = IF r.done
                   THEN Append(log, [key |-> op.key, value |-> op.value])
                   ELSE log

NextSteps ==
    \/ \E run \in StepRuns : CallInsert(run)
    \/ StepInsert
    \/ \E k \in StepKeys, build \in BOOLEAN : CallSearch(k, build)
    \/ StepSearch

SpecSteps == Init /\ [][NextSteps]_vars

----------------------------------------------------------------------------
(* What the claims speak of *)

Last(seq) == seq[Len(seq)]

IsInsert == op.name = "insert"

IsSearch == op.name = "search"

LoggedKeys == {log[i].key : i \in 1..Len(log)}

DistinctKeysLogged == Cardinality(LoggedKeys) = Len(log)

\* The children an internal node records.
ChildrenOf(node) ==
    CASE node.type \in {NODE4, NODE16} ->
            {node.children[i] : i \in 0..(node.count - 1)}
      [] node.type \in {NODE48, NODE256} ->
            {node.children[i] : i \in DOMAIN node.children} \ {NULL}
      [] OTHER -> {}

RECURSIVE ReachFrom(_, _)
ReachFrom(h, set) ==
    LET more == set \cup UNION {ChildrenOf(h[n]) \cap DOMAIN h : n \in set}
    IN  IF more = set THEN set ELSE ReachFrom(h, more)

\* The nodes reachable from the root.
Reachable(h, root) == IF root \in DOMAIN h THEN ReachFrom(h, {root}) ELSE {}

Leaves(h, root) == {n \in Reachable(h, root) : h[n].type = LEAF}

LeavesWithKey(h, root, key) == {n \in Leaves(h, root) : h[n].key = key}

IsLeafFor(h, n, key) == n \in DOMAIN h /\ h[n].type = LEAF /\ h[n].key = key

RECURSIVE CommonPrefixLength(_, _, _)
\* The number of bytes two different keys share from offset d on.
CommonPrefixLength(k1, k2, d) ==
    IF d < Len(k1) /\ d < Len(k2) /\ k1[d + 1] = k2[d + 1]
    THEN 1 + CommonPrefixLength(k1, k2, d + 1)
    ELSE 0

\* The number of children an internal node holds.
NumChildren(node) ==
    CASE node.type \in {NODE4, NODE16} -> node.count
      [] node.type \in {NODE48, NODE256} ->
            Cardinality({i \in DOMAIN node.children : node.children[i] # NULL})
      [] OTHER -> 0

\* The number of children a variant has room for.
Capacity(node) ==
    CASE node.type = NODE4 -> 4
      [] node.type = NODE16 -> 16
      [] node.type = NODE48 -> 48
      [] node.type = NODE256 -> 256
      [] OTHER -> 0

\* The variant that follows in size.
NextVariant(type) ==
    CASE type = NODE4 -> NODE16
      [] type = NODE16 -> NODE48
      [] type = NODE48 -> NODE256
      [] OTHER -> type

\* The key bytes that an edge of a node can carry in the runs of the model.
EdgeBytes == 0..127

\* The blocks that malloc returned for a node.
Blocks(h, n) ==
    IF h[n].type = LEAF THEN {"key", "value", "node"} ELSE {"node"}

\* How often a sequence holds e.
Occurrences(seq, e) == Cardinality({i \in 1..Len(seq) : seq[i] = e})

\* The insert just made met a leaf that stores another key.
SplitDone ==
    /\ IsInsert
    /\ op.pre # NULL
    /\ heap[op.pre].type = LEAF
    /\ heap[op.pre].key # op.key

----------------------------------------------------------------------------
(* Claims *)

\* C1: the search of K issued right after insert of (K, V) returns a leaf
\* whose stored key is K and whose stored value is V.
C1_RoundTrip ==
    (IsSearch /\ log # <<>> /\ op.key = Last(log).key)
        => /\ IsLeafFor(heap, op.ret, op.key)
           /\ heap[op.ret].value = Last(log).value

\* C2: after inserts of pairwise distinct keys, the search of every inserted
\* key returns the leaf that holds the value inserted for it.
C2_Persistence ==
    (IsSearch /\ DistinctKeysLogged /\ op.key \in LoggedKeys)
        => /\ IsLeafFor(heap, op.ret, op.key)
           /\ \E i \in 1..Len(log) : /\ log[i].key = op.key
                                     /\ heap[op.ret].value = log[i].value

\* C3: search of a key never inserted returns NULL, and a leaf that search
\* returns stores the key searched.
C3_LookupSound ==
    IsSearch => /\ op.key \notin LoggedKeys => op.ret = NULL
                /\ op.ret # NULL => IsLeafFor(heap, op.ret, op.key)

\* C4: the size field of the handle is the number of distinct keys inserted,
\* which is the number of leaves reachable from the root.
C4_SizeCounter ==
    /\ art.size = Cardinality(LoggedKeys)
    /\ art.size = Cardinality(Leaves(heap, art.root))

\* C5: an insert of a key that the tree already stores replaces the value
\* stored for it, leaves exactly one leaf with that key and does not change
\* the number of leaves.
C5_DuplicateReplaces ==
    [][(log' # log /\ LeavesWithKey(heap, art.root, Last(log').key) # {})
        => /\ Cardinality(LeavesWithKey(heap', art'.root, Last(log').key)) = 1
           /\ \A n \in LeavesWithKey(heap', art'.root, Last(log').key) :
                 heap'[n].value = Last(log').value
           /\ Cardinality(Leaves(heap', art'.root)) =
                 Cardinality(Leaves(heap, art.root))]_vars

\* C6: insert of (K, V) into an empty tree makes the root a leaf that stores
\* the complete key K and the value V and returns it; a following search of
\* another key returns NULL.
C6_InsertIntoEmpty ==
    /\ (IsInsert /\ op.pre = NULL)
          => /\ IsLeafFor(heap, art.root, op.key)
             /\ heap[art.root].value = op.value
             /\ op.ret = art.root
    /\ (IsSearch /\ Len(log) = 1 /\ op.key # log[1].key) => op.ret = NULL

\* A search of "a" has followed the insert of "ab" into the empty tree.
C6_Witness ==
    /\ IsSearch
    /\ Len(log) = 1
    /\ log[1].key = <<97, 98>>
    /\ op.key = <<97>>
    /\ IsLeafFor(heap, art.root, <<97, 98>>)

C8_SplitPrefix ==
    SplitDone =>
        LET lcp == CommonPrefixLength(op.key, heap[op.pre].key, 0)
            n4 == heap[art.root]
        IN  /\ art.root \notin {NULL, op.pre}
            /\ n4.type = NODE4
            /\ n4.prefixLen = lcp
            /\ \A i \in 1..lcp : PrefixAt(n4, i - 1) = op.key[i]

\* C9: the N4 of a leaf split has exactly two children: the old leaf under
\* K'[d+lcp] and a new leaf for (K, V) under K[d+lcp], two different bytes.
C9_SplitEdges ==
    SplitDone =>
        LET old == heap[op.pre].key
            lcp == CommonPrefixLength(op.key, old, 0)
            n4 == heap[art.root]
        IN  /\ n4.type = NODE4
            /\ n4.count = 2
            /\ KeyAt(old, lcp) # KeyAt(op.key, lcp)
            /\ \E i, j \in 0..1 :
                  /\ i # j
                  /\ n4.keys[i] = KeyAt(old, lcp)
                  /\ n4.children[i] = op.pre
                  /\ n4.keys[j] = KeyAt(op.key, lcp)
                  /\ IsLeafFor(heap, n4.children[j], op.key)
                  /\ heap[n4.children[j]].value = op.value
                  /\ n4.children[j] # op.pre

\* C10: the insert that adds a fifth child to an N4 holding four replaces it
\* in its slot by an N16 that holds all five children; after the inserts of
\* "key0" .. "key4" into an empty tree the root is an N16.
C10_PromoteN4 ==
    [][/\ (/\ log' # log
           /\ art.root # NULL
           /\ heap[art.root].type = NODE4
           /\ heap[art.root].count = 4)
          => LET old == heap[art.root]
                 new == heap'[art'.root]
             IN  /\ art'.root \notin DOMAIN heap
                 /\ art'.root \notin freed'
                 /\ art.root \in freed'
                 /\ new.type = NODE16
                 /\ new.count = 5
                 /\ ChildrenOf(old) \subseteq ChildrenOf(new)
                 /\ Cardinality(ChildrenOf(new)) = 5
                 /\ \A i \in 0..3 : \E j \in 0..4 :
                       /\ new.keys[j] = old.keys[i]
                       /\ new.children[j] = old.children[i]
                 /\ \E j \in 0..4 :
                       /\ new.keys[j] = KeyAt(Last(log').key, 0)
                       /\ new.children[j] \notin DOMAIN heap
                       /\ IsLeafFor(heap', new.children[j], Last(log').key)
       /\ [i \in 1..Len(log') |-> log'[i].key] = [i \in 1..5 |-> TestKey(i - 1)]
          => heap'[art'.root].type = NODE16]_vars

\* "key0" .. "key4" have been inserted in this order and the root is an N16
\* with five children.
C10_Witness ==
    /\ [i \in 1..Len(log) |-> log[i].key] = [i \in 1..5 |-> TestKey(i - 1)]
    /\ heap[art.root].type = NODE16
    /\ heap[art.root].count = 5
    /\ op.pre \in freed

\* C11: an N16 holds between 5 and 16 children and an insert that finds
\* fewer than 16 leaves it an N16 in its slot; the insert that finds an N16
\* with 16 children puts a fresh N48 in its slot and releases the N16.  After
\* the 16 keys "key16<i>" the root is an N16, after the 4 further keys
\* "key48<i>" it is an N48.
C11_PromoteN16 ==
    [][/\ (/\ log' # log
           /\ art.root # NULL
           /\ heap[art.root].type = NODE16
           /\ heap[art.root].count < 16)
          => /\ art'.root = art.root
             /\ heap'[art'.root].type = NODE16
             /\ heap'[art'.root].count = heap[art.root].count + 1
       /\ (art'.root # NULL /\ heap'[art'.root].type = NODE16)
          => heap'[art'.root].count \in 5..16
       /\ (/\ log' # log
           /\ art.root # NULL
           /\ heap[art.root].type = NODE16
           /\ heap[art.root].count = 16)
          => /\ art'.root \notin DOMAIN heap
             /\ art'.root \notin freed'
             /\ art.root \in freed'
             /\ heap'[art'.root].type = NODE48
       /\ (log' # log /\ LogKeys' = SubSeq(TestGrow16, 1, 16))
          => heap'[art'.root].type = NODE16
       /\ (log' # log /\ LogKeys' = TestGrow16)
          => heap'[art'.root].type = NODE48]_vars

\* The 16 keys "key16<i>" and the 4 keys "key48<i>" have been inserted, the
\* root is an N48 and the N16 that held 16 children has been released.
C11_Witness ==
    /\ LogKeys = TestGrow16
    /\ IsInsert
    /\ heap[art.root].type = NODE48
    /\ \E n \in freed : heap[n].type = NODE16 /\ heap[n].count = 16

\* C12: an internal node that holds 48 children is an N48, and the insert
\* that finds it puts a fresh N256 in its slot, the tree root included: after
\* the 48 keys "key48<i>" the root is an N48 and after the further keys
\* "key256<i>" it is an N256.
C12_PromoteN48 ==
    [][/\ (/\ log' # log
           /\ art.root # NULL
           /\ heap[art.root].type = NODE48
           /\ Cardinality({i \in 0..47 : heap[art.root].children[i] # NULL}) = 48)
          => /\ art'.root \notin DOMAIN heap
             /\ art'.root \notin freed'
             /\ heap'[art'.root].type = NODE256
       /\ (log' # log /\ LogKeys' = SubSeq(TestGrow48, 1, 48))
          => heap'[art'.root].type = NODE48
       /\ (log' # log /\ Len(log') > 48 /\ LogKeys' = SubSeq(TestGrow48, 1, Len(log')))
          => /\ heap'[art'.root].type = NODE256
             /\ art'.root \notin freed']_vars

\* C13: an insert during which a malloc returns NULL reports failure and
\* leaves the tree as it was: the same root, every node that was reachable
\* unchanged, no NULL recorded as a child, and no access outside an object.
C13_AtomicInsert ==
    [][(log' # log /\ "fail" \in DOMAIN op')
        => /\ op'.ret = NULL
           /\ art'.root = art.root
           /\ oob' = oob
           /\ \A n \in Reachable(heap, art.root) : heap'[n] = heap[n]
           /\ \A n \in Reachable(heap', art'.root) :
                 heap'[n].type # LEAF =>
                    \A i \in 0..(NumChildren(heap'[n]) - 1) :
                       heap'[n].type \in {NODE4, NODE16}
                          => heap'[n].children[i] # NULL]_vars

\* C14: after inserts of pairwise distinct keys, freeART releases every block
\* of every node and leaf that growth has not released, each exactly once,
\* releases nothing that was released before, and releases the children of
\* a node before the node.
C14_FreeReleasesAll ==
    [][(op'.name = "freeART" /\ DistinctKeysLogged)
        => /\ \A n \in (DOMAIN heap) \ freed :
                 \A part \in Blocks(heap, n) :
                    Occurrences(op'.released, [addr |-> n, part |-> part]) = 1
           /\ \A i \in 1..Len(op'.released) :
                 op'.released[i].addr \in (DOMAIN heap) \ freed
           /\ \A i, j \in 1..Len(op'.released) :
                 (/\ op'.released[i].part = "node"
                  /\ op'.released[i].addr \in DOMAIN heap
                  /\ op'.released[j].addr
                        \in ChildrenOf(heap[op'.released[i].addr]))
                    => j < i]_vars

C16_Descent ==
    [][(/\ log' # log
        /\ art.root # NULL
        /\ heap[art.root].type # LEAF
        /\ checkPrefix(heap[art.root], Last(log').key, 0)
              = heap[art.root].prefixLen
        /\ findChildBinary(heap[art.root],
              KeyAt(Last(log').key, heap[art.root].prefixLen)) # NULL)
        => /\ art'.root = art.root
           /\ heap'[art.root].type = heap[art.root].type
           /\ NumChildren(heap'[art.root]) = NumChildren(heap[art.root])
           /\ ChildrenOf(heap'[art.root]) = ChildrenOf(heap[art.root])]_vars

\* C17: for every byte, findChild on the node that grow returns gives the
\* child that findChild gave on the node grown, and the number of children
\* is the same.
C17_GrowthKeepsChildren ==
    [][(op'.name = "grow" /\ op' # op)
        => /\ op'.ret # NULL
           /\ NumChildren(heap'[op'.ret]) = NumChildren(heap[art.root])
           /\ \A b \in EdgeBytes :
                 findChildBinary(heap'[op'.ret], b)
                    = findChildBinary(heap[art.root], b)]_vars

\* C18: after addChild(node, b, c) on a node that is not full and has no
\* child for b, findChild on the node returned gives c for b and, for every
\* other byte, what it gave before.
C18_AddFind ==
    [][(/\ log' # log
        /\ op'.name = "addChild"
        /\ ~isNodeFull(heap[art.root])
        /\ NumChildren(heap[art.root]) < Capacity(heap[art.root])
        /\ findChildBinary(heap[art.root], op'.key[1]) = NULL)
        => /\ op'.ret # NULL
           /\ findChildBinary(heap'[op'.ret], op'.key[1]) = op'.child
           /\ \A b \in EdgeBytes \ {op'.key[1]} :
                 findChildBinary(heap'[op'.ret], b)
                    = findChildBinary(heap[art.root], b)]_vars

\* C19: addChild(node, b, c) on an N4, N16 or N48 that holds as many
\* children as it has room for, none of them for b, returns a fresh node of
\* the next variant that is not released, holds every child of the old node
\* under its byte and c under b, and the old node is released.
C19_AddToFull ==
    [][(/\ log' # log
        /\ op'.name = "addChild"
        /\ heap[art.root].type \in {NODE4, NODE16, NODE48}
        /\ NumChildren(heap[art.root]) = Capacity(heap[art.root])
        /\ findChildBinary(heap[art.root], op'.key[1]) = NULL)
        => /\ op'.ret \in (DOMAIN heap') \ (DOMAIN heap)
           /\ op'.ret \notin freed'
           /\ art.root \in freed'
           /\ heap'[op'.ret].type = NextVariant(heap[art.root].type)
           /\ findChildBinary(heap'[op'.ret], op'.key[1]) = op'.child
           /\ \A b \in EdgeBytes \ {op'.key[1]} :
                 findChildBinary(heap'[op'.ret], b)
                    = findChildBinary(heap[art.root], b)]_vars

\* C20: in every N4 and N16 reachable from the root, keys[0..count) is
\* strictly ascending and children[i] is a child whose key has the byte
\* keys[i] after the prefix of the node.
C20_SortedKeys ==
    \A n \in Reachable(heap, art.root) :
        heap[n].type \in {NODE4, NODE16}
           => /\ \A i \in 0..(heap[n].count - 2) :
                    heap[n].keys[i] < heap[n].keys[i + 1]
              /\ \A i \in 0..(heap[n].count - 1) :
                    /\ heap[n].children[i] \in DOMAIN heap
                    /\ heap[heap[n].children[i]].type = LEAF
                          => KeyAt(heap[heap[n].children[i]].key,
                                   heap[n].prefixLen) = heap[n].keys[i]

\* C21: in every N48 reachable from the root, every index entry that is not
\* EMPTY_KEY is a slot in 0..47 whose child pointer is not NULL, and no two
\* key bytes have the same slot.
C21_N48Index ==
    (IsInsert /\ art.root \notin freed)
        => \A n \in Reachable(heap, art.root) :
              heap[n].type = NODE48
                 => /\ \A b \in 0..255 :
                          heap[n].keys[b] # EMPTY_KEY
                             => /\ heap[n].keys[b] \in 0..47
                                /\ heap[n].children[heap[n].keys[b]] # NULL
                    /\ \A b, c \in 0..255 :
                          (/\ b # c
                           /\ heap[n].keys[b] # EMPTY_KEY
                           /\ heap[n].keys[c] # EMPTY_KEY)
                             => heap[n].keys[b] # heap[n].keys[c]

\* The edges of an internal node: the pairs of a key byte and the child that
\* the node records for it.
EdgesOf(node) ==
    CASE node.type \in {NODE4, NODE16} ->
            {<<node.keys[i], node.children[i]>> : i \in 0..(node.count - 1)}
      [] node.type = NODE48 ->
            {<<b, node.children[node.keys[b]]>> :
                b \in {c \in 0..255 : node.keys[c] \in 0..47}}
      [] node.type = NODE256 ->
            {<<b, node.children[b]>> :
                b \in {c \in 0..255 : node.children[c] # NULL}}
      [] OTHER -> {}

RECURSIVE PathSpells(_, _, _)
\* Below node n, which stands at depth d, every leaf has in its key the
\* stored prefix bytes of each node on its path and the edge byte taken out
\* of it, at the depth where they occur.
PathSpells(h, n, d) ==
    (n \in DOMAIN h /\ h[n].type # LEAF)
        => \A e \in EdgesOf(h[n]) :
              /\ \A l \in Leaves(h, e[2]) :
                    /\ \A j \in 0..(MIN(h[n].prefixLen, MAX_PREFIX_LENGTH) - 1) :
                          PrefixAt(h[n], j) = KeyAt(h[l].key, d + j)
                    /\ e[1] = KeyAt(h[l].key, d + h[n].prefixLen)
              /\ PathSpells(h, e[2], d + h[n].prefixLen + 1)

\* C22: after any inserts, along the path from the root to every leaf the
\* prefix bytes of each internal node followed by the edge byte taken out of
\* it are the bytes of the leaf's key at the depths at which they occur.
C22_PathSpellsKey ==
    IsInsert => PathSpells(heap, art.root, 0)

\* C23: when insert of K finds in the root an internal node of which only
\* m < prefixLen prefix bytes match K, the root becomes a new Node4 whose
\* prefix is those m bytes and whose two children are the old node, under
\* the first unmatched byte of its old prefix and with its prefix shortened
\* by m + 1 bytes, and a new leaf for K under K[m]; the children of the old
\* node are unchanged.
C23_SplitInternalPrefix ==
    [][(/\ log' # log
        /\ art.root # NULL
        /\ heap[art.root].type # LEAF
        /\ checkPrefix(heap[art.root], Last(log').key, 0)
              < heap[art.root].prefixLen)
        => LET old == art.root
               K == Last(log').key
               m == checkPrefix(heap[old], K, 0)
               new == art'.root
           IN  /\ new \in (DOMAIN heap') \ (DOMAIN heap)
               /\ heap'[new].type = NODE4
               /\ heap'[new].prefixLen = m
               /\ \A j \in 0..(m - 1) : PrefixAt(heap'[new], j) = KeyAt(K, j)
               /\ heap'[new].count = 2
               /\ \E l \in (DOMAIN heap') \ (DOMAIN heap) :
                     /\ IsLeafFor(heap', l, K)
                     /\ EdgesOf(heap'[new])
                           = {<<PrefixAt(heap[old], m), old>>, <<KeyAt(K, m), l>>}
               /\ heap'[old].type = heap[old].type
               /\ heap'[old].prefixLen = heap[old].prefixLen - (m + 1)
               /\ \A j \in 0..(heap'[old].prefixLen - 1) :
                     PrefixAt(heap'[old], j) = PrefixAt(heap[old], j + m + 1)
               /\ EdgesOf(heap'[old]) = EdgesOf(heap[old])]_vars

\* C24: checkPrefix(node, K, d) with 0 <= d <= |K| on an internal node whose
\* prefix setPrefix has stored returns the largest m that is at most
\* prefixLen, |K| - d and MAX_PREFIX_LENGTH and for which the first m prefix
\* bytes are K[d..d+m): prefixLen when the whole prefix matches, 0 when the
\* first byte differs, else the offset of the first byte that differs; and
\* the key bytes it compares all lie before |K|.
C24_CheckPrefix ==
    (op.name = "checkPrefix")
        => LET node == heap[art.root]
               K == op.key
               d == op.depth
               m == op.ret
               lim == MIN(node.prefixLen, MIN(Len(K) - d, MAX_PREFIX_LENGTH))
           IN  /\ m \in 0..lim
               /\ \A j \in 0..(m - 1) : PrefixAt(node, j) = K[d + j + 1]
               /\ m < lim => PrefixAt(node, m) # K[d + m + 1]
               /\ \A i \in op.compared : i >= 0 /\ i < Len(K)

\* checkPrefix has stopped on a byte that differs after bytes that match, at
\* a depth other than 0.
C24_Witness ==
    /\ op.name = "checkPrefix"
    /\ op.depth > 0
    /\ op.ret > 0
    /\ op.ret < heap[art.root].prefixLen
    /\ op.ret < Len(op.key) - op.depth

\* C25: isNodeFull is true of a Node4 exactly when it holds 4 children, of
\* a Node16 exactly when it holds 16 and of a Node48 exactly when it holds
\* 48, and false of every node that holds fewer children than it has room
\* for.
C25_Fullness ==
    (IsInsert /\ art.root # NULL /\ art.root \notin freed)
        => LET node == heap[art.root]
           IN  /\ node.type \in {NODE4, NODE16, NODE48}
                     => (isNodeFull(node) <=> NumChildren(node) = Capacity(node))
               /\ NumChildren(node) < Capacity(node) => ~isNodeFull(node)

\* C26: when the key inserted and the key of the leaf it meets share more
\* than MAX_PREFIX_LENGTH bytes, the Node4 made by the split has as
\* prefixLen the full number of bytes shared, and its prefix array holds
\* the first MAX_PREFIX_LENGTH of them.
C26_OptimisticPrefix ==
    (SplitDone
        /\ CommonPrefixLength(heap[op.pre].key, op.key, 0) > MAX_PREFIX_LENGTH)
        => /\ heap[art.root].type = NODE4
           /\ heap[art.root].prefixLen
                 = CommonPrefixLength(heap[op.pre].key, op.key, 0)
           /\ \A j \in 0..(MAX_PREFIX_LENGTH - 1) :
                 PrefixAt(heap[art.root], j) = KeyAt(op.key, j)

\* C27: after any inserts, those that grow a node included, the root and
\* every child reachable from it are nodes that have not been released:
\* no node that growth has released is reachable from the root.
C27_NoDangling ==
    IsInsert
        => /\ art.root \notin freed
           /\ Reachable(heap, art.root) \cap freed = {}
           /\ \A n \in Reachable(heap, art.root) :
                 ChildrenOf(heap[n]) \subseteq (DOMAIN heap) \ freed

\* C28: every read and write of the children array of a Node48 that
\* addChildToNode48 and growFromNode48toNode256 make uses a slot in 0..47,
\* also where the index entry of the byte is EMPTY_KEY.
C28_N48SlotBounds ==
    \A e \in oob :
        e.fn \in {"addChildToNode48", "growFromNode48toNode256"}
           => e.slot \in 0..47

\* C29: on every Node16 with 1 <= count <= 16 whose first count keys are
\* strictly ascending, findChildSSE and findChildBinary return the same for
\* every byte: the child stored for the byte when it is among the first
\* count keys, and NULL otherwise.
C29_SearchEquivalence ==
    (/\ art.root # NULL
     /\ art.root \notin freed
     /\ heap[art.root].type = NODE16
     /\ heap[art.root].count \in 1..16
     /\ \A i \in 0..(heap[art.root].count - 2) :
           heap[art.root].keys[i] < heap[art.root].keys[i + 1])
        => \A b \in EdgeBytes :
              /\ findChildSSE(heap[art.root], b, ZeroLanes)
                    = findChildBinary(heap[art.root], b)
              /\ \A i \in 0..(heap[art.root].count - 1) :
                    heap[art.root].keys[i] = b
                       => findChildSSE(heap[art.root], b, ZeroLanes)
                             = heap[art.root].children[i]
              /\ (\A i \in 0..(heap[art.root].count - 1) :
                    heap[art.root].keys[i] # b)
                       => findChildSSE(heap[art.root], b, ZeroLanes) = NULL

====
